---- MODULE Spec2Model ----
(***************************************************************************)
(* NOAH voice/text assistant (combined_noah.py, chatbot_core.py,           *)
(* config.py): the command router process_command, its handlers, the       *)
(* Gemini adapter EnhancedChatbot and the run loop, as a state machine.    *)
(* Strings are TLA+ strings, i.e. sequences of characters: Len, SubSeq and *)
(* \o act on them, so Python's substring test, replace, split, strip,      *)
(* lower and title are computed character by character.                    *)
(***************************************************************************)
EXTENDS Integers, Sequences, FiniteSets, TLC

(***************************************************************************)
(* Python string primitives used by the router.                            *)
(***************************************************************************)

\* s[i] as a one-character string
CharAt(s, i) == SubSeq(s, i, i)

\* Python: p in s
Contains(s, p) ==
    \E i \in 1..(Len(s) - Len(p) + 1) : SubSeq(s, i, i + Len(p) - 1) = p

\* Python: s.find(p) + 1 (0 when p does not occur)
Find(s, p) ==
    LET at == { i \in 1..(Len(s) - Len(p) + 1) : SubSeq(s, i, i + Len(p) - 1) = p }
    IN  IF at = {} THEN 0 ELSE CHOOSE i \in at : \A j \in at : i <= j

\* Python: s.startswith(p)
StartsWith(s, p) == Len(p) <= Len(s) /\ SubSeq(s, 1, Len(p)) = p

\* Python: s.replace(old, new), leftmost non-overlapping occurrences (old non-empty)
RECURSIVE Replace(_, _, _)
Replace(s, old, new) ==
    LET i == Find(s, old)
    IN  IF i = 0 THEN s
        ELSE SubSeq(s, 1, i - 1) \o new
                \o Replace(SubSeq(s, i + Len(old), Len(s)), old, new)

\* Python: s.replace(old, "")
Remove(s, old) == Replace(s, old, "")

\* the whitespace str.strip() and str.split() act on
IsSpace(c) == c \in {" ", "\t", "\n"}

\* Python: s.strip()
RECURSIVE LStrip(_)
LStrip(s) ==
    IF Len(s) > 0 /\ IsSpace(CharAt(s, 1)) THEN LStrip(SubSeq(s, 2, Len(s))) ELSE s

RECURSIVE RStrip(_)
RStrip(s) ==
    IF Len(s) > 0 /\ IsSpace(CharAt(s, Len(s)))
    THEN RStrip(SubSeq(s, 1, Len(s) - 1)) ELSE s

Strip(s) == RStrip(LStrip(s))

\* Python: s.split(), the whitespace-separated tokens of s
RECURSIVE Split(_)
Split(s) ==
    LET t == LStrip(s)
        n == IF \E i \in 1..Len(t) : IsSpace(CharAt(t, i))
             THEN (CHOOSE i \in 1..Len(t) :
                      /\ IsSpace(CharAt(t, i))
                      /\ \A j \in 1..(i - 1) : ~IsSpace(CharAt(t, j))) - 1
             ELSE Len(t)
    IN  IF t = "" THEN << >>
        ELSE <<SubSeq(t, 1, n)>> \o Split(SubSeq(t, n + 1, Len(t)))

\* Python: " ".join(words)
RECURSIVE Join(_)
Join(words) ==
    IF words = << >> THEN ""
    ELSE IF Len(words) = 1 THEN words[1]
    ELSE words[1] \o " " \o Join(Tail(words))

\* Python: words.index(w) + 1 (0 where Python raises ValueError)
Index(words, w) ==
    IF \E i \in 1..Len(words) : words[i] = w
    THEN CHOOSE i \in 1..Len(words) :
            words[i] = w /\ \A j \in 1..(i - 1) : words[j] # w
    ELSE 0

LowerLetters == "abcdefghijklmnopqrstuvwxyz"
UpperLetters == "ABCDEFGHIJKLMNOPQRSTUVWXYZ"

\* the lower-case letter of each upper-case letter, and the reverse
ToLower == [c \in { CharAt(UpperLetters, i) : i \in 1..26 } |->
              CharAt(LowerLetters, Find(UpperLetters, c))]
ToUpper == [c \in { CharAt(LowerLetters, i) : i \in 1..26 } |->
              CharAt(UpperLetters, Find(LowerLetters, c))]

IsLetter(c) == c \in DOMAIN ToLower \/ c \in DOMAIN ToUpper

LowerChar(c) == IF c \in DOMAIN ToLower THEN ToLower[c] ELSE c

UpperChar(c) == IF c \in DOMAIN ToUpper THEN ToUpper[c] ELSE c

\* Python: s.lower()
RECURSIVE Lower(_)
Lower(s) ==
    IF s = "" THEN "" ELSE LowerChar(CharAt(s, 1)) \o Lower(SubSeq(s, 2, Len(s)))

\* Python: s.upper()
RECURSIVE Upper(_)
Upper(s) ==
    IF s = "" THEN "" ELSE UpperChar(CharAt(s, 1)) \o Upper(SubSeq(s, 2, Len(s)))

\* Python: s.title(): a letter after a non-letter is upper-cased, any other lower-cased
RECURSIVE TitleFrom(_, _)
TitleFrom(s, afterLetter) ==
    IF s = "" THEN ""
    ELSE LET c == CharAt(s, 1)
         IN  (IF afterLetter THEN LowerChar(c) ELSE UpperChar(c))
                \o TitleFrom(SubSeq(s, 2, Len(s)), IsLetter(c))

Title(s) == TitleFrom(s, FALSE)

(***************************************************************************)
(* Configuration (config.py) and fixed texts.                              *)
(***************************************************************************)

\* Python's None, for the optional strings of the program
None == "<None>"

\* Python truthiness of an optional string
Truthy(v) == v # None /\ v # ""

DEFAULT_USER_NAME == "Rudra"
DEFAULT_CITY == "Mumbai"
GEMINI_MODEL == "gemini-1.5-flash"
PLACEHOLDER_KEY == "YOUR_API_KEY_HERE"

(***************************************************************************)
(* The world a handler runs in: the assistant object, its chatbot, the     *)
(* profile file, and the trace of calls made to collaborators (eff).       *)
(* An effect is [op, a, b]: the collaborator or method called, its         *)
(* argument, and a second argument or the value it returned.               *)
(***************************************************************************)

Eff(op, a, b) == [op |-> op, a |-> a, b |-> b]

Emit(w, op, a, b) == [w EXCEPT !.eff = Append(@, Eff(op, a, b))]

\* say(text): print, log and speak; errors of the speech engine are swallowed
Say(w, text) == Emit(w, "say", text, "")

\* say(result) for the result the call before it returned
SayRet(w) == Say(w, w.ret)

\* return v
Return(w, v) == [w EXCEPT !.ret = v]

\* EnhancedChatbot.__init__
NewChatbot ==
    [model_type |-> None, gemini_model |-> FALSE, api_key |-> None, concise_mode |-> TRUE]

(***************************************************************************)
(* EnhancedChatbot                                                         *)
(***************************************************************************)

\* the config value taken before the environment variable
ResolveKey_config_first(arg, envKey, configKey) ==
    IF Truthy(arg) THEN arg
    ELSE IF Truthy(configKey) THEN configKey
    ELSE IF Truthy(envKey) THEN envKey
    ELSE None

\* the key load_gemini_api settles on: the argument, else the environment
\* variable, else the config value, else None
ResolveKey(arg, envKey, configKey) ==
    IF Truthy(arg) THEN arg
    ELSE IF Truthy(envKey) THEN envKey
    ELSE IF Truthy(configKey) THEN configKey
    ELSE None

\* the key check of load_gemini_api
KeyRejected(key) == ~Truthy(key) \/ key = PLACEHOLDER_KEY

\* load_gemini_api(api_key): w.ret is the returned bool
load_gemini_api(w, arg, o) ==
    LET key == ResolveKey(arg, w.environ.env, w.environ.config)
        w1 == [w EXCEPT !.chatbot.api_key = key]
    IN  IF KeyRejected(key) THEN [w1 EXCEPT !.ret = "False"]
        ELSE LET w2 == Emit(w1, "genai.configure", key, "") IN
             IF o.load = "configure_raised" THEN [w2 EXCEPT !.ret = "False"]
             ELSE IF o.load = "model_raised" THEN [w2 EXCEPT !.ret = "False"]
             ELSE [w2 EXCEPT !.chatbot.gemini_model = TRUE,
                             !.chatbot.model_type = "gemini",
                             !.ret = "True"]

\* is_model_loaded
is_model_loaded(bot) == bot.model_type = "gemini" /\ bot.gemini_model

\* get_model_info
get_model_info(bot) ==
    IF bot.model_type = "gemini"
    THEN "Google " \o GEMINI_MODEL \o " - Advanced AI Assistant (from config)"
    ELSE "No model loaded"

\* get_api_status (the status texts without their leading emoji)
get_api_status(environ) ==
    IF Truthy(environ.config) /\ environ.config # PLACEHOLDER_KEY
    THEN "API key configured in config.py"
    ELSE IF Truthy(environ.env) THEN "API key found in environment variables"
    ELSE "No API key configured"

\* the persona block of generate_gemini_response
system_instruction ==
    "You are NOAH, a helpful AI assistant. Follow these rules strictly:\n"
    \o "- Keep responses under 120 words\n"
    \o "- Be direct and actionable\n"
    \o "- Use bullet points for lists (max 3 bullets)\n"
    \o "- Give numbered steps for procedures\n"
    \o "- Avoid filler words and repetition\n"
    \o "- Don't add unnecessary disclaimers\n"
    \o "- If unclear, give most likely answer + 1 clarification"

ULTRA_CONCISE ==
    "ULTRA-CONCISE MODE: Maximum 3 sentences. No elaboration unless critical.\n"

HISTORY_WINDOW == 6
MAX_RESPONSE_CHARS == 800

\* the whole history in place of its last turns
AllTurns(hist) == hist

\* chat_history[-6:]
LastTurns(hist) ==
    IF Len(hist) <= HISTORY_WINDOW THEN hist
    ELSE SubSeq(hist, Len(hist) - HISTORY_WINDOW + 1, Len(hist))

\* the lines "User: ..." / "NOAH: ..." of the turns that have content and a known role
RECURSIVE recent_messages(_)
recent_messages(turns) ==
    IF turns = << >> THEN << >>
    ELSE LET msg == Head(turns)
             content == Strip(msg.content)
             line == IF content = "" THEN << >>
                     ELSE IF msg.role = "user" THEN <<"User: " \o content>>
                     ELSE IF msg.role = "assistant" THEN <<"NOAH: " \o content>>
                     ELSE << >>
         IN  line \o recent_messages(Tail(turns))

\* Python: "\n".join(lines)
RECURSIVE JoinLines(_)
JoinLines(lines) ==
    IF lines = << >> THEN ""
    ELSE IF Len(lines) = 1 THEN lines[1]
    ELSE lines[1] \o "\n" \o JoinLines(Tail(lines))

\* chat_history is None (NoHistory) or a sequence of turns
NoHistory == << >>

history_context(hist) ==
    LET lines == recent_messages(LastTurns(hist))
    IN  IF lines = << >> THEN ""
        ELSE "Recent context:\n" \o JoinLines(lines) \o "\n\n"

style_modifier(bot) == IF bot.concise_mode THEN ULTRA_CONCISE ELSE ""

final_prompt(bot, message, hist) ==
    system_instruction \o "\n\n"
    \o style_modifier(bot)
    \o history_context(hist)
    \o "Current question: " \o message \o "\n\n"
    \o "Provide a concise, helpful response:"

\* the clean-up without the cut at the limit
clean_response_uncut(text) ==
    IF StartsWith(Strip(text), "NOAH:")
    THEN Strip(SubSeq(Strip(text), 6, Len(Strip(text)))) ELSE Strip(text)

\* the clean-up of the remote text
clean_response(text) ==
    LET c1 == Strip(text)
        c2 == IF Len(c1) > MAX_RESPONSE_CHARS
              THEN SubSeq(c1, 1, MAX_RESPONSE_CHARS) \o "..." ELSE c1
    IN  IF StartsWith(c2, "NOAH:") THEN Strip(SubSeq(c2, 6, Len(c2))) ELSE c2

TROUBLE_MSG == "I'm having trouble generating a response right now. Please try again."
API_KEY_MSG == "API key error. Please check your Gemini API key in config.py."
QUOTA_MSG == "API quota exceeded. Please check your usage limits."
SAFETY_MSG == "Sorry, I cannot respond to that request due to safety filters."
NETWORK_MSG == "Network error. Please check your internet connection."
GENERIC_MSG == "I encountered an error. Please try again in a moment."

\* the except block of generate_gemini_response: the reply for a raised error
classify_error(e) ==
    LET error_msg == Upper(e)
    IN  IF Contains(error_msg, "API_KEY") \/ Contains(error_msg, "AUTHENTICATION")
        THEN API_KEY_MSG
        ELSE IF Contains(error_msg, "QUOTA") \/ Contains(error_msg, "LIMIT")
        THEN QUOTA_MSG
        ELSE IF Contains(error_msg, "BLOCKED") \/ Contains(error_msg, "SAFETY")
        THEN SAFETY_MSG
        ELSE IF Contains(error_msg, "NETWORK") \/ Contains(error_msg, "CONNECTION")
        THEN NETWORK_MSG
        ELSE GENERIC_MSG

\* generate_gemini_response(message, chat_history); remote is what the remote
\* call does: [kind |-> "text", text] returns text, [kind |-> "error", text]
\* raises an error with that message.  The trace gets the prompt sent, then
\* what the remote call did and the reply made of it.
remote_reply(remote) ==
    IF remote.kind = "error" THEN classify_error(remote.text)
    ELSE IF remote.kind = "text" /\ remote.text # "" THEN clean_response(remote.text)
    ELSE TROUBLE_MSG

generate_gemini_response(w, message, hist, remote) ==
    Return(Emit(Emit(w, "generate_content", final_prompt(w.chatbot, message, hist), ""),
                "remote_" \o remote.kind, remote.text, remote_reply(remote)),
           remote_reply(remote))

LOAD_FIRST_MSG ==
    "Please load Gemini model first by saying 'load ai model' or 'use gemini'."

\* get_response(message, chat_history)
\* the trace entry of a call: its name, its argument and what it returned
Returned(w, op, a) == Emit(w, op, a, w.ret)

get_response(w, message, hist, remote) ==
    Returned(IF w.chatbot.model_type = "gemini" /\ w.chatbot.gemini_model
             THEN generate_gemini_response(w, message, hist, remote)
             ELSE Return(w, LOAD_FIRST_MSG),
             "get_response", message)

\* toggle_concise_mode
toggle_concise_mode(w) ==
    LET on == ~w.chatbot.concise_mode
    IN  [w EXCEPT !.chatbot.concise_mode = on,
                  !.ret = "Concise mode is now " \o (IF on THEN "ON" ELSE "OFF")]

\* set_concise_mode(enabled)
set_concise_mode(w, enabled) ==
    [w EXCEPT !.chatbot.concise_mode = enabled,
              !.ret = "Concise mode " \o (IF enabled THEN "enabled" ELSE "disabled")]

(***************************************************************************)
(* AdvancedNOAHWithAI: the handlers.  o is the outcome of the external     *)
(* collaborators during the call (browser, network, files, random draws).  *)
(***************************************************************************)

\* the router's flag set whatever the load returned
ai_model_marked_always(w) ==
    Return(Say([w EXCEPT !.noah.ai_model_loaded = TRUE],
               "Gemini AI model loaded successfully from config! I'm now powered by Google's advanced AI."),
           w.ret)

\* initialize_ai_model: w.ret is the returned bool
ai_model_initialized(w) ==
    IF w.ret = "True"
    THEN Return(Say([w EXCEPT !.noah.ai_model_loaded = TRUE],
                    "Gemini AI model loaded successfully from config! I'm now powered by Google's advanced AI."),
                "True")
    ELSE Return(Say(w, "Failed to load Gemini AI model. Please check your API key in config.py file."),
                "False")

initialize_ai_model(w, o) ==
    ai_model_initialized(
        load_gemini_api(Say(w, "Loading advanced Gemini AI model from configuration..."),
                        None, o))

\* urllib.parse.quote_plus on the characters utterances are made of
quote_plus(query) == Replace(query, " ", "+")

\* search_urls.get(platform, search_urls["google"])
search_url(query, platform) ==
    LET q == quote_plus(query)
    IN  IF platform = "youtube" THEN "https://www.youtube.com/results?search_query=" \o q
        ELSE IF platform = "amazon" THEN "https://www.amazon.com/s?k=" \o q
        ELSE IF platform = "github" THEN "https://github.com/search?q=" \o q
        ELSE IF platform = "wikipedia"
        THEN "https://en.wikipedia.org/wiki/Special:Search?search=" \o q
        ELSE "https://www.google.com/search?q=" \o q

\* smart_search(query, platform).  o.browser: webbrowser.open "opened" the page,
\* "returned_false" (no browser found, no exception) or "raised".  In the except
\* branch platform is the str parameter, which hides the platform module:
\* platform.system() raises AttributeError, the inner except catches it, and no
\* OS command runs.
smart_search(w, query, platform, o) ==
    Return(Emit(Emit(w, "webbrowser.open", search_url(query, platform), o.browser),
                "smart_search", query, platform),
           IF o.browser # "raised"
           THEN "Opening " \o platform \o " and searching for " \o query
           ELSE "Could not open " \o platform
                   \o ". Please check your default browser settings.")

\* re.search(prefix + " (.+)", query, re.IGNORECASE).group(1), None without a
\* match; utterances are single lines
regex_capture(query, prefix) ==
    LET p == prefix \o " "
        i == Find(Lower(query), p)
    IN  IF i = 0 \/ i + Len(p) > Len(query) THEN None
        ELSE SubSeq(query, i + Len(p), Len(query))

\* the patterns with "what is" tried before "tell me about"
patterns_what_is_first ==
    <<"what is", "tell me about", "explain", "describe", "information about",
      "write about">>

patterns ==
    <<"tell me about", "what is", "explain", "describe", "information about",
      "write about">>

\* the topic loop of handle_tell_me_about: None when no pattern matches
RECURSIVE topic_from(_, _)
topic_from(query, k) ==
    IF k > Len(patterns) THEN None
    ELSE IF regex_capture(query, patterns[k]) # None
    THEN Strip(regex_capture(query, patterns[k]))
    ELSE topic_from(query, k + 1)

extract_topic(query) == topic_from(query, 1)

CLARIFY_TOPIC_MSG ==
    "I didn't catch what you want to know about. Please say 'tell me about' followed by a topic."

\* save_and_open_notepad(topic, content): w.ret is the file path, None on failure
save_and_open_notepad(w, topic, content, o) ==
    IF o.report = "raised" THEN [w EXCEPT !.ret = None]
    ELSE [Emit(w, "write_report", topic, content) EXCEPT !.ret = "NOAH_Gemini_Info.txt"]

\* the two prompts of the topic report
report_prompt(topic, i) ==
    IF i = 1
    THEN "Provide a comprehensive overview of " \o topic
            \o ", including key facts, importance, and applications."
    ELSE "What are the main features and characteristics of " \o topic
            \o "? Include examples and practical uses."

MIN_SECTION_CHARS == 50

\* one round of the prompt loop: the section kept from the response, if any
report_section(response, i) ==
    IF response # "" /\ Len(Strip(response)) > MIN_SECTION_CHARS
    THEN <<"AI Analysis " \o (IF i = 1 THEN "1" ELSE "2") \o ":\n" \o Strip(response)>>
    ELSE << >>

\* wikipedia.summary(topic): the text, or None when it raises
wiki_text(o) ==
    IF o.wiki = "short" THEN "A short summary."
    ELSE IF o.wiki = "long"
    THEN "A summary of three sentences that is longer than the router will speak, "
         \o "because it describes the subject at length, its history, its uses, "
         \o "the people who worked on it and the places where it is found today."
    ELSE None

\* the Wikipedia supplement of the report, empty when the summary raises
wiki_info(o) ==
    IF wiki_text(o) = None THEN ""
    ELSE "\n\nSupplementary Wikipedia Information:\n" \o wiki_text(o)

\* the text of the report, from the sections kept
combined_info(topic, ai_responses, o) ==
    IF ai_responses # << >>
    THEN "Advanced AI Generated Information about " \o topic \o ":\n\n"
         \o (IF Len(ai_responses) = 1 THEN ai_responses[1]
             ELSE ai_responses[1] \o "\n\n" \o ai_responses[2])
         \o wiki_info(o)
    ELSE "Topic: " \o topic
         \o "\n\nI apologize, but AI couldn't generate detailed information at this time."
         \o wiki_info(o)

\* the end of handle_tell_me_about: the reply, after save_and_open_notepad
report_saved(w, topic) ==
    Return(w, IF w.ret # None
              THEN "I've used advanced Gemini AI to generate detailed information about "
                   \o topic \o " and saved it to your text editor."
              ELSE "AI generated information about " \o topic
                   \o ", but couldn't save it to a file.")

\* after the second prompt: the Wikipedia supplement and the file
report_after_prompts(w, topic, first_section, o) ==
    report_saved(
        save_and_open_notepad(Emit(w, "wikipedia.summary", topic, o.wiki), topic,
            combined_info(topic, first_section \o report_section(w.ret, 2), o), o),
        topic)

\* after the first prompt: the second prompt
report_after_first(w, topic, o) ==
    report_after_prompts(get_response(w, report_prompt(topic, 2), NoHistory, o.chat2),
                         topic, report_section(w.ret, 1), o)

\* the report made from the first prompt alone
ai_report_one_prompt(w, topic, o) ==
    report_after_prompts(
        get_response(Say(w, "Let me use advanced AI to generate detailed information about "
                            \o topic \o "..."),
                     report_prompt(topic, 1), NoHistory, o.chat),
        topic, << >>, o)

\* the report with the model loaded: two prompts, the supplement, the file
ai_report(w, topic, o) ==
    report_after_first(
        get_response(Say(w, "Let me use advanced AI to generate detailed information about "
                            \o topic \o "..."),
                     report_prompt(topic, 1), NoHistory, o.chat),
        topic, o)

\* the report when the on-demand load failed: Wikipedia only
wikipedia_report(w, topic, o) ==
    IF wiki_text(o) = None
    THEN Return(Emit(Say(w, "Using Wikipedia for information..."),
                     "wikipedia.summary", topic, o.wiki),
                "Sorry, I couldn't load the AI model or find Wikipedia information.")
    ELSE Return(save_and_open_notepad(
                    Emit(Say(w, "Using Wikipedia for information..."),
                         "wikipedia.summary", topic, o.wiki),
                    topic, "Wikipedia Information:\n\n" \o wiki_text(o), o),
                "I couldn't load the AI model, but I found Wikipedia information about "
                \o topic \o ".")

\* after the on-demand initialize_ai_model
report_after_load(w, topic, o) ==
    IF w.ret = "False" THEN wikipedia_report(w, topic, o) ELSE ai_report(w, topic, o)

\* handle_tell_me_about from the topic on
report_on(w, topic, o) ==
    IF ~Truthy(topic) THEN Return(w, CLARIFY_TOPIC_MSG)
    ELSE IF w.noah.ai_model_loaded THEN ai_report(w, topic, o)
    ELSE report_after_load(
            initialize_ai_model(Say(w, "Let me load my advanced AI knowledge base first..."), o),
            topic, o)

\* handle_tell_me_about(query): w.ret is the reply
handle_tell_me_about(w, query, o) == report_on(w, extract_topic(query), o)

\* get_free_weather(city)
get_free_weather(w, city, o) ==
    [Emit(w, "requests.get", "http://wttr.in/" \o city \o "?format=3", o.weather)
        EXCEPT !.ret = IF o.weather = "ok" THEN "Sunny +30C"
                       ELSE IF o.weather = "http_error" THEN "Weather information not available"
                       ELSE "Could not get weather information"]

\* search_wikipedia(query)
search_wikipedia(w, query, o) ==
    [Emit(w, "wikipedia.summary", query, o.wiki)
        EXCEPT !.ret = IF wiki_text(o) # None THEN wiki_text(o)
                       ELSE IF o.wiki = "ambiguous"
                       THEN "Multiple results found for " \o query \o ". Please be more specific."
                       ELSE IF o.wiki = "notfound"
                       THEN "No Wikipedia page found for " \o query
                       ELSE "Could not access Wikipedia at this time"]

\* tell_joke: pyjokes, or a joke of the local list when it raises
tell_joke(w, o) ==
    [w EXCEPT !.ret = IF o.joke = "ok" THEN "A programmer walks into a bar."
                      ELSE "Why don't programmers like nature? It has too many bugs!"]

\* get_system_info
get_system_info(w, o) ==
    [w EXCEPT !.ret = IF o.metrics = "ok"
                      THEN "System Status: CPU usage is 5%, Memory usage is 40%, Disk usage is 60%"
                      ELSE "Could not retrieve system information"]

\* take_screenshot
take_screenshot(w, o) ==
    IF o.screenshot = "ok"
    THEN [Emit(w, "pyautogui.screenshot", "screenshot.png", "")
            EXCEPT !.ret = "Screenshot saved as screenshot.png"]
    ELSE [w EXCEPT !.ret = "Could not take screenshot: error"]

\* open_camera
open_camera(w, o) ==
    [Emit(w, "cv2.VideoCapture", "", o.camera)
        EXCEPT !.ret = IF o.camera = "ok" THEN "Camera closed"
                       ELSE IF o.camera = "not_opened" THEN "Could not access camera"
                       ELSE "Could not open camera: error"]

\* open_application(app_name); o.app: the operating system and whether the launch raised
open_application(w, app_name, o) ==
    IF o.app = "raised" THEN Say(w, "Could not open " \o app_name)
    ELSE IF o.app = "windows"
    THEN Say(Emit(w, "subprocess.Popen", app_name, ""), "Opening " \o app_name)
    ELSE IF app_name = "browser"
    THEN Say(Emit(w, "webbrowser.open", "https://www.google.com", "opened"),
             "Opening default browser")
    ELSE Say(w, "Application opening is limited on this platform")

\* save_user_data: json.dump of user_data into noah_data.json; an error is logged
save_user_data(w, o) ==
    IF o.save = "raised" THEN w
    ELSE [Emit(w, "save_user_data", w.noah.user_data.name, "")
            EXCEPT !.disk = [exists |-> TRUE, has_name |-> w.noah.user_data.has_name,
                             name |-> w.noah.user_data.name]]

SPOKEN_CAP == 200

greetings(user_name) ==
    <<"Hello " \o user_name \o "! How can I help you today?",
      "Hi there! I'm NOAH, ready to assist you with intelligent responses.",
      "Greetings " \o user_name \o "! What can I do for you today?">>

suggestions ==
    <<"I didn't understand that command. Say 'load ai model' to enable advanced AI responses!",
      "Sorry, I didn't catch that. Make sure your API key is set in config.py, then try 'load ai model'.",
      "I'm not sure what you mean. Try searching: 'youtube music videos' or 'search python tutorials'.">>

\* the help text (its bullets and emoji written in ASCII)
help_text ==
    "I can help you with many things! Here are some examples:\n\n"
    \o "AI Features (Powered by Google Gemini from config.py):\n"
    \o "* Say 'tell me about Python' for detailed AI-generated information\n"
    \o "* Ask any question for intelligent responses\n"
    \o "* Have natural conversations with advanced AI\n\n"
    \o "Configuration Commands:\n"
    \o "* Say 'config status' to check API key status\n"
    \o "* Say 'load ai model' to initialize Gemini\n\n"
    \o "WEB SEARCH FEATURES:\n"
    \o "* Say 'search machine learning' - Google search\n"
    \o "* Say 'youtube python tutorials' - YouTube search\n"
    \o "* Say 'search python on github' - GitHub search\n"
    \o "* Say 'search laptop on amazon' - Amazon search\n"
    \o "* Say 'search einstein on wikipedia' - Wikipedia search\n\n"
    \o "System Features:\n"
    \o "* Ask for time, date, or weather updates (default city: " \o DEFAULT_CITY \o ")\n"
    \o "* Request screenshots or camera access\n"
    \o "* Get system performance information\n\n"
    \o "Other Commands:\n"
    \o "* Tell jokes and get entertainment\n"
    \o "* Say 'text mode' to switch input methods\n"
    \o "* Say 'exit' when you're done\n\n"
    \o "Note: All AI responses are powered by Google Gemini with settings from config.py!"

\* the farewell with the configured default name in place of the profile name
farewell_default_name(user_name) ==
    "Goodbye " \o DEFAULT_USER_NAME
    \o "! It was great helping you today with Google Gemini AI from config!"

farewell(user_name) ==
    "Goodbye " \o user_name
    \o "! It was great helping you today with Google Gemini AI from config!"

(***************************************************************************)
(* process_command: the if/elif chain and the body of each branch.         *)
(***************************************************************************)

\* any() written as all(): every key has to occur
AllIn(query, keys) == \A i \in 1..Len(keys) : Contains(query, keys[i])

\* Python: any(k in query for k in keys)
AnyIn(query, keys) == \E i \in 1..Len(keys) : Contains(query, keys[i])

tell_me_patterns ==
    <<"tell me about", "what is", "explain", "describe", "information about",
      "write about", "generate information about">>

\* the branch of process_command that runs for a non-empty query, numbered in
\* source order: 1 information request, 2 model load, 3 status, 4 mode switch,
\* 5 greeting, 6 time, 7 date, 8 weather, 9 wikipedia, 10 joke, 11 system,
\* 12 screenshot, 13 camera, 14 search, 15 youtube, 16 google, 17 open, 18 name,
\* 19 help, 20 exit, 21 the final else
Branch(query) ==
    IF AnyIn(Lower(query), tell_me_patterns) THEN 1
    ELSE IF AnyIn(query, <<"load ai model", "initialize ai", "use gemini", "load gemini">>) THEN 2
    ELSE IF Contains(query, "config status") \/ Contains(query, "api status") THEN 3
    ELSE IF Contains(query, "text mode") \/ Contains(query, "switch to text") THEN 4
    ELSE IF Contains(query, "voice mode") \/ Contains(query, "switch to voice") THEN 4
    ELSE IF AnyIn(query, <<"hello", "hi", "hey", "good morning", "good afternoon">>) THEN 5
    ELSE IF Contains(query, "time") THEN 6
    ELSE IF Contains(query, "date") \/ Contains(query, "today") THEN 7
    ELSE IF Contains(query, "weather") THEN 8
    ELSE IF Contains(query, "wikipedia") \/ Contains(query, "search wikipedia") THEN 9
    ELSE IF Contains(query, "joke") \/ Contains(query, "funny") \/ Contains(query, "humor") THEN 10
    ELSE IF Contains(query, "system") \/ Contains(query, "status")
            \/ Contains(query, "performance") THEN 11
    ELSE IF Contains(query, "screenshot") \/ Contains(query, "screen capture") THEN 12
    ELSE IF Contains(query, "camera") \/ Contains(query, "video") THEN 13
    ELSE IF Contains(query, "search") THEN 14
    ELSE IF Contains(query, "youtube") THEN 15
    ELSE IF Contains(query, "google") /\ Contains(query, "search") THEN 16
    ELSE IF Contains(query, "open") THEN 17
    ELSE IF Contains(query, "my name is") \/ Contains(query, "call me") THEN 18
    ELSE IF Contains(query, "help") \/ Contains(query, "commands") THEN 19
    ELSE IF AnyIn(query, <<"exit", "quit", "goodbye", "bye", "stop">>) THEN 20
    ELSE 21

\* the status report made by resolving the key into the adapter, as a load does
status_branch_resolving(w) ==
    Say([w EXCEPT !.chatbot.api_key = ResolveKey(None, w.environ.env, w.environ.config)],
        "Configuration status: " \o get_api_status(w.environ)
        \o ". Model: " \o get_model_info(w.chatbot))

\* branch 3: the status report
status_branch(w) ==
    Say(w, "Configuration status: " \o get_api_status(w.environ)
           \o ". Model: " \o get_model_info(w.chatbot))

\* the mode switch without the test for a microphone
mode_branch_unguarded(w, query) ==
    IF Contains(query, "text mode") \/ Contains(query, "switch to text")
    THEN Say([w EXCEPT !.noah.text_mode = TRUE], "Switched to text input mode")
    ELSE Say([w EXCEPT !.noah.text_mode = FALSE], "Switched to voice input mode")

\* branch 4: the input mode switch
mode_branch(w, query) ==
    IF Contains(query, "text mode") \/ Contains(query, "switch to text")
    THEN Say([w EXCEPT !.noah.text_mode = TRUE], "Switched to text input mode")
    ELSE IF w.noah.microphone
    THEN Say([w EXCEPT !.noah.text_mode = FALSE], "Switched to voice input mode")
    ELSE Say(w, "Voice mode is not available. Microphone not detected.")

\* branch 8: the city of a weather query
weather_city(query) ==
    LET words == Split(query)
        in_index == Index(words, "in")
    IN  IF in_index # 0 /\ in_index < Len(words)
        THEN Join(SubSeq(words, in_index + 1, Len(words)))
        ELSE DEFAULT_CITY

weather_branch(w, query, o) ==
    LET city == weather_city(query)
        w1 == get_free_weather(w, city, o)
    IN  Say(w1, "Weather in " \o city \o ": " \o w1.ret)

\* the summary spoken whatever its length
say_summary_always(w) == Say(w, w.ret)

\* branch 9: the summary is spoken when it is shorter than the cap
say_summary(w) == IF Len(w.ret) < SPOKEN_CAP THEN SayRet(w) ELSE w

wikipedia_branch(w, query, o) ==
    LET search_query == Strip(Remove(Remove(query, "wikipedia"), "search"))
    IN  IF search_query # ""
        THEN say_summary(search_wikipedia(
                    SayRet(smart_search(w, search_query, "wikipedia", o)), search_query, o))
        ELSE Say(w, "What would you like me to search on Wikipedia?")

\* branch 14: the platform a search query names
platform_detected(query) ==
    IF Contains(query, "youtube") \/ Contains(query, "video") THEN "youtube"
    ELSE IF Contains(query, "amazon") \/ Contains(query, "buy") \/ Contains(query, "shop")
    THEN "amazon"
    ELSE IF Contains(query, "github") \/ Contains(query, "code") THEN "github"
    ELSE "google"

\* branch 14: what is left of the query to search for
search_query_of(query) ==
    LET q0 == Strip(Remove(query, "search"))
        pf == platform_detected(query)
    IN  IF pf = "youtube" THEN Strip(Remove(Remove(q0, "youtube"), "video"))
        ELSE IF pf = "amazon" THEN Strip(Remove(Remove(Remove(q0, "amazon"), "buy"), "shop"))
        ELSE IF pf = "github" THEN Strip(Remove(Remove(q0, "github"), "code"))
        ELSE q0

search_branch(w, query, o) ==
    LET search_query == search_query_of(query)
    IN  IF search_query # ""
        THEN SayRet(smart_search(w, search_query, platform_detected(query), o))
        ELSE Say(w, "What would you like me to search for?")

\* branches 15 and 16: a direct search on one platform
direct_search_branch(w, query, site, o) ==
    LET search_query == Strip(Remove(Remove(Remove(query, site), "search"), "on"))
    IN  IF search_query # ""
        THEN SayRet(smart_search(w, search_query, site, o))
        ELSE Say(w, "What would you like me to search on "
                    \o (IF site = "youtube" THEN "YouTube?" ELSE "Google?"))

\* branch 17
open_branch(w, query, o) ==
    IF Contains(query, "notepad") THEN open_application(w, "notepad", o)
    ELSE IF Contains(query, "calculator") THEN open_application(w, "calc", o)
    ELSE IF Contains(query, "browser") \/ Contains(query, "chrome")
    THEN open_application(w, "browser", o)
    ELSE Say(w, "Which application would you like me to open?")

\* branch 18: words.index raises ValueError when the marker is no token of its
\* own, and the bare except answers; an empty new_name falls through the if
name_branch(w, query, o) ==
    LET words == Split(query)
        marker == IF Contains(query, "my name is") THEN "is" ELSE "me"
        name_index == Index(words, marker)
        new_name == Join(SubSeq(words, name_index + 1, Len(words)))
    IN  IF name_index = 0 THEN Say(w, "I didn't catch your name. Please try again.")
        ELSE IF new_name # ""
        THEN LET w1 == [w EXCEPT !.noah.user_name = Title(new_name),
                                 !.noah.user_data.has_name = TRUE,
                                 !.noah.user_data.name = Title(new_name)]
                 w2 == save_user_data(w1, o)
             IN  Say(w2, "Nice to meet you, " \o w2.noah.user_name \o "!")
        ELSE w

\* branch 20
exit_branch(w) ==
    Emit([Say(w, farewell(w.noah.user_name)) EXCEPT !.noah.is_listening = FALSE],
         "halt", "", "")

\* the chat reply spoken whole, whatever its length
say_uncapped(w) == Say(w, w.ret)

\* branch 21: the chat reply is spoken whole, or cut at the cap
say_capped(w) ==
    Say(w, IF Len(w.ret) > SPOKEN_CAP
           THEN SubSeq(w.ret, 1, SPOKEN_CAP)
                   \o "... Would you like me to elaborate on any part?"
           ELSE w.ret)

\* branch 21: chat when the model is marked loaded, else a fixed suggestion
fallback_branch(w, query, o) ==
    IF w.noah.ai_model_loaded
    THEN say_capped(get_response(w, query, NoHistory, o.chat))
    ELSE Say(w, suggestions[o.pick])

\* what a user types or says
Utterances ==
    { "tell me about mars", "what is", "explain gravity",
      "load ai model", "config status", "api status",
      "text mode", "switch to text", "voice mode", "switch to voice",
      "hello", "hey noah", "search machine learning", "time", "stop the time", "date",
      "weather", "weather in tokyo", "weather in",
      "search einstein on wikipedia", "wikipedia",
      "joke", "system", "screenshot", "camera", "youtube music videos",
      "search laptop on amazon", "search python on github", "search python tutorials",
      "google search cats", "search",
      "youtube python tutorials", "youtube",
      "open notepad", "open browser", "open",
      "my name is alex", "my name is", "call me sam", "call method",
      "help", "exit", "goodbye", "quit",
      "sing a song", "toggle concise", "concise mode" }

\* what is typed at the prompt: an utterance, or one before get_input's
\* strip and lower
TypedLines ==
    Utterances \cup { "", "  Hello ", "weather in Tokyo", "Weather in Tokyo", "EXIT" }

\* queries handed to process_command by a direct caller, in any letter case
DirectQueries ==
    { "Tell me about Mars", "TELL ME ABOUT the Moon", "what is Tell Me About Mars ",
      "EXPLAIN", "describe  saturn", "weather in Tokyo", "weather in new york",
      "is it in weather in", "write about write about" }

\* every query process_command is called with: what get_input returns for the
\* typed and the heard lines, and the direct callers' queries
Queries ==
    { Lower(Strip(t)) : t \in TypedLines } \cup { Lower(t) : t \in TypedLines }
    \cup DirectQueries

\* the body of branch b
branch_body(w, b, query, o) ==
    IF b = 1 THEN SayRet(handle_tell_me_about(w, query, o))
    ELSE IF b = 2 THEN initialize_ai_model(w, o)
    ELSE IF b = 3 THEN status_branch(w)
    ELSE IF b = 4 THEN mode_branch(w, query)
    ELSE IF b = 5 THEN Say(w, greetings(w.noah.user_name)[o.pick])
    ELSE IF b = 6 THEN Say(w, "The current time is " \o o.clock)
    ELSE IF b = 7 THEN Say(w, "Today is " \o o.today)
    ELSE IF b = 8 THEN weather_branch(w, query, o)
    ELSE IF b = 9 THEN wikipedia_branch(w, query, o)
    ELSE IF b = 10 THEN SayRet(tell_joke(w, o))
    ELSE IF b = 11 THEN SayRet(get_system_info(w, o))
    ELSE IF b = 12 THEN SayRet(take_screenshot(w, o))
    ELSE IF b = 13 THEN SayRet(open_camera(Say(w, "Opening camera. Press Q to close."), o))
    ELSE IF b = 14 THEN search_branch(w, query, o)
    ELSE IF b = 15 THEN direct_search_branch(w, query, "youtube", o)
    ELSE IF b = 16 THEN direct_search_branch(w, query, "google", o)
    ELSE IF b = 17 THEN open_branch(w, query, o)
    ELSE IF b = 18 THEN name_branch(w, query, o)
    ELSE IF b = 19 THEN Say(w, help_text)
    ELSE IF b = 20 THEN exit_branch(w)
    ELSE fallback_branch(w, query, o)

\* Branch, tabulated once over the queries of the model
BranchOf == [q \in Queries |-> Branch(q)]

\* process_command(query): nothing for an empty query; else the first branch of
\* the chain whose test holds.  w.branch records the branch whose body ran.
process_command(w, query, o) ==
    IF query = "" THEN w
    ELSE [branch_body(w, BranchOf[query], query, o) EXCEPT !.branch = BranchOf[query]]

(***************************************************************************)
(* Inputs and collaborator outcomes                                        *)
(***************************************************************************)

Text(t) == [kind |-> "text", text |-> t]
Error(t) == [kind |-> "error", text |-> t]

\* s repeated n times
RECURSIVE Rep(_, _)
Rep(s, n) == IF n = 0 THEN "" ELSE s \o Rep(s, n - 1)

\* the sentences of the long reply of the remote service
LongReplyRepeats == 6

LongReply == Rep("Mars is the fourth planet from the Sun. ", LongReplyRepeats)

\* remote texts for the clean-up: padded with whitespace, with the label echoed
\* once and twice, longer than the limit without and with the label
RawTexts ==
    { Text("  Mars is a planet.\n"), Text(" NOAH: Mars is a planet. "),
      Text("NOAH: NOAH: Mars is a planet."),
      Text(Rep(LongReply, 4)), Text(" NOAH: " \o Rep(LongReply, 4)) }

\* what the remote chat service may do in one call
RemoteOutcomes ==
    { Text("Mars is a planet."), Text(LongReply), Text("NOAH:"), Text(""),
      Error("429 Quota exceeded"), Error("quota exceeded for api_key abc"),
      Error("connection reset") }

DefaultOutcome ==
    [pick |-> 1, clock |-> "10:30 AM", today |-> "Sunday, November 01, 2026",
     load |-> "ok", chat |-> Text("Mars is a planet."), chat2 |-> Text(LongReply),
     wiki |-> "short", browser |-> "opened", weather |-> "ok", joke |-> "ok",
     metrics |-> "ok", screenshot |-> "ok", camera |-> "ok", app |-> "other",
     save |-> "ok", report |-> "ok"]

LoadOutcomes == {"ok", "configure_raised", "model_raised"}
WikiOutcomes == {"short", "long", "ambiguous", "notfound", "error"}
BrowserOutcomes == {"opened", "returned_false", "raised"}

\* the outcomes that matter to branch b
Outcomes(b) ==
    IF b = 1
    THEN { [DefaultOutcome EXCEPT !.load = l, !.chat = c, !.wiki = k, !.report = r] :
             l \in {"ok", "configure_raised"},
             c \in {Text(LongReply), Error("429 Quota exceeded")},
             k \in {"short", "error"}, r \in {"ok", "raised"} }
    ELSE IF b = 2 THEN { [DefaultOutcome EXCEPT !.load = l] : l \in LoadOutcomes }
    ELSE IF b = 5 THEN { [DefaultOutcome EXCEPT !.pick = i] : i \in 1..3 }
    ELSE IF b = 8
    THEN { [DefaultOutcome EXCEPT !.weather = x] : x \in {"ok", "http_error", "raised"} }
    ELSE IF b = 9
    THEN { [DefaultOutcome EXCEPT !.browser = x, !.wiki = k] :
             x \in {"opened", "raised"}, k \in WikiOutcomes }
    ELSE IF b = 10 THEN { [DefaultOutcome EXCEPT !.joke = x] : x \in {"ok", "raised"} }
    ELSE IF b = 11 THEN { [DefaultOutcome EXCEPT !.metrics = x] : x \in {"ok", "raised"} }
    ELSE IF b = 12 THEN { [DefaultOutcome EXCEPT !.screenshot = x] : x \in {"ok", "raised"} }
    ELSE IF b = 13
    THEN { [DefaultOutcome EXCEPT !.camera = x] : x \in {"ok", "not_opened", "raised"} }
    ELSE IF b \in {14, 15, 16}
    THEN { [DefaultOutcome EXCEPT !.browser = x] : x \in BrowserOutcomes }
    ELSE IF b = 17
    THEN { [DefaultOutcome EXCEPT !.app = x] : x \in {"windows", "other", "raised"} }
    ELSE IF b = 18 THEN { [DefaultOutcome EXCEPT !.save = x] : x \in {"ok", "raised"} }
    ELSE IF b = 21
    THEN { [DefaultOutcome EXCEPT !.pick = i] : i \in 1..3 }
         \cup { [DefaultOutcome EXCEPT !.chat = c] : c \in RemoteOutcomes }
    ELSE {DefaultOutcome}

(***************************************************************************)
(* State                                                                   *)
(***************************************************************************)

VARIABLES
    noah,       \* the AdvancedNOAHWithAI object: text_mode, microphone (present or
                \* None), is_listening, user_name, user_data, ai_model_loaded
    chatbot,    \* its EnhancedChatbot: model_type, gemini_model, api_key, concise_mode
    environ,    \* CONFIG_API_KEY of config.py and os.environ's GEMINI_API_KEY
    disk,       \* noah_data.json
    pc,         \* where run() is: "start", "read", "sleep", "done"; "api", "returned"
                \* when the methods are called directly
    call,       \* the call of the current iteration: [op, a, b]
    branch,     \* the branch of process_command whose body ran in it (0: none)
    eff,        \* the collaborator calls it made, in order
    ret         \* what the call returned (None: nothing)

vars == <<noah, chatbot, environ, disk, pc, call, branch, eff, ret>>

NoCall == Eff("", "", "")

\* the world a call starts in
World ==
    [noah |-> noah, chatbot |-> chatbot, environ |-> environ, disk |-> disk,
     eff |-> << >>, ret |-> None, branch |-> 0]

\* the world a call leaves
Commit(w) ==
    /\ noah' = w.noah
    /\ chatbot' = w.chatbot
    /\ disk' = w.disk
    /\ eff' = w.eff
    /\ ret' = w.ret
    /\ branch' = w.branch
    /\ UNCHANGED environ

VALID_KEY == "AIzaSy-valid-key"
OTHER_KEY == "AIzaSy-other-key"

\* a key source: missing, empty, the placeholder of the template, or a key
KeyValues == {None, "", PLACEHOLDER_KEY, VALID_KEY}

\* the key settings the assistant is started with: a key in config.py, one in
\* the environment only, none at all, a config key shadowed by a placeholder in
\* the environment
Environs ==
    { [env |-> None, config |-> VALID_KEY],
      [env |-> VALID_KEY, config |-> PLACEHOLDER_KEY],
      [env |-> None, config |-> PLACEHOLDER_KEY],
      [env |-> PLACEHOLDER_KEY, config |-> VALID_KEY] }

\* noah_data.json at startup: absent (or unreadable), a record without a name,
\* or a record with one
ProfileFiles ==
    { [exists |-> FALSE, has_name |-> FALSE, name |-> ""],
      [exists |-> TRUE, has_name |-> FALSE, name |-> ""],
      [exists |-> TRUE, has_name |-> TRUE, name |-> "Sam"] }

\* the profile loaded without taking the name of the record into user_name
load_user_data_keeping_default(file) ==
    IF file.exists
    THEN [user_name |-> DEFAULT_USER_NAME,
          user_data |-> [has_name |-> file.has_name, name |-> file.name]]
    ELSE [user_name |-> DEFAULT_USER_NAME,
          user_data |-> [has_name |-> TRUE, name |-> DEFAULT_USER_NAME]]

\* load_user_data: the record and the name it leaves in user_name
load_user_data(file) ==
    IF file.exists
    THEN [user_name |-> IF file.has_name THEN file.name ELSE DEFAULT_USER_NAME,
          user_data |-> [has_name |-> file.has_name, name |-> file.name]]
    ELSE [user_name |-> DEFAULT_USER_NAME,
          user_data |-> [has_name |-> TRUE, name |-> DEFAULT_USER_NAME]]

\* the construction without the switch to text mode when no microphone is found
NewNoah_without_fallback(mic, calibrated, file) ==
    [text_mode |-> mic /\ ~calibrated,
     microphone |-> mic,
     is_listening |-> TRUE,
     user_name |-> load_user_data(file).user_name,
     user_data |-> load_user_data(file).user_data,
     ai_model_loaded |-> FALSE]

\* AdvancedNOAHWithAI.__init__: mic is whether sr.Microphone() succeeded,
\* calibrated whether adjust_for_ambient_noise did
NewNoah(mic, calibrated, file) ==
    [text_mode |-> ~mic \/ ~calibrated,
     microphone |-> mic,
     is_listening |-> TRUE,
     user_name |-> load_user_data(file).user_name,
     user_data |-> load_user_data(file).user_data,
     ai_model_loaded |-> FALSE]

\* the state after construction, for every startup outcome
Init ==
    /\ \E mic \in BOOLEAN, calibrated \in BOOLEAN, file \in ProfileFiles :
          /\ noah = NewNoah(mic, calibrated, file)
          /\ disk = file
    /\ chatbot = NewChatbot
    /\ environ \in Environs
    /\ pc = "start"
    /\ call = NoCall
    /\ branch = 0
    /\ eff = << >>
    /\ ret = None

(***************************************************************************)
(* run()                                                                   *)
(***************************************************************************)

\* run() up to its loop: the greeting and the microphone test
RunStart ==
    /\ pc = "start"
    /\ LET w1 == IF noah.text_mode
                 THEN Say(World, "Hello " \o noah.user_name
                                 \o "! Running in TEXT MODE for demo reliability.")
                 ELSE Say(Say(World, "Hello " \o noah.user_name
                                     \o "! I'm NOAH, your intelligent assistant."),
                          "Say 'tell me about' any topic for intelligent responses, or try 'youtube music videos' for search!")
           w2 == IF ~w1.noah.microphone /\ ~w1.noah.text_mode
                 THEN [Say(w1, "No microphone detected. Switching to text input mode.")
                         EXCEPT !.noah.text_mode = TRUE]
                 ELSE w1
       IN  Commit(w2)
    /\ call' = Eff("run", "", "")
    /\ pc' = "sleep"

\* what the input device does in one get_input call
InputEvents ==
    { [kind |-> "line", text |-> t] : t \in TypedLines }
    \cup { [kind |-> k, text |-> ""] :
             k \in {"interrupt", "eof", "error", "timeout", "request_error"} }

\* get_input() and listen(): w.ret is the query returned, "<interrupt>" when
\* KeyboardInterrupt leaves the call, "<recursion>" when the two call each other
\* without end
get_input(w, ev) ==
    IF w.noah.text_mode
    THEN [w EXCEPT !.ret = IF ev.kind = "line" THEN Lower(Strip(ev.text))
                           ELSE IF ev.kind \in {"interrupt", "eof"} THEN "exit"
                           ELSE ""]
    ELSE IF ~w.noah.microphone THEN [w EXCEPT !.ret = "<recursion>"]
    ELSE IF ev.kind = "line" THEN [w EXCEPT !.ret = Lower(ev.text)]
    ELSE IF ev.kind = "request_error"
    THEN [Say(w, "Sorry, my speech service is having issues. Switching to text mode.")
            EXCEPT !.noah.text_mode = TRUE, !.ret = ""]
    ELSE IF ev.kind = "interrupt" THEN [w EXCEPT !.ret = "<interrupt>"]
    ELSE [w EXCEPT !.ret = ""]

\* what the user gave in the get_input call: the line, or the event in its place
Given(ev) == IF ev.kind = "line" THEN ev.text ELSE "<" \o ev.kind \o ">"

\* branch 18 reaches its say(): the marker is a token and a token follows it
new_name_given(query) ==
    LET words == Split(query)
        name_index == Index(words, IF Contains(query, "my name is") THEN "is" ELSE "me")
    IN  name_index # 0 /\ name_index < Len(words)

\* process_command(query) when KeyboardInterrupt is raised while the body of the
\* dispatched branch runs.  A bare except around the point it is raised at
\* catches it: in the name branch during say() of the new name (the name is
\* set and saved, then the except speaks), in tell_joke inside pyjokes (a joke
\* of the local list is told).  Anywhere else it leaves process_command, whose
\* handler is for Exception only: w.ret is then "<interrupt>".
interrupted_command(w, query, o) ==
    IF BranchOf[query] = 18 /\ new_name_given(query)
    THEN [Say(name_branch(w, query, o), "I didn't catch your name. Please try again.")
            EXCEPT !.branch = 18]
    ELSE IF BranchOf[query] = 10
    THEN [SayRet(tell_joke(w, [o EXCEPT !.joke = "raised"])) EXCEPT !.branch = 10]
    ELSE [w EXCEPT !.ret = "<interrupt>", !.branch = BranchOf[query]]

\* the except KeyboardInterrupt of run(): the goodbye, then break
run_interrupted(w) == Say(w, "Shutting down NOAH Assistant. Goodbye!")

\* the rest of the iteration after process_command was interrupted: the loop
\* ends when the interrupt reached run(), and goes on when it was caught
routing_interrupted(w) ==
    IF w.ret = "<interrupt>"
    THEN Commit(run_interrupted(w)) /\ pc' = "done"
    ELSE Commit(w) /\ pc' = "sleep"

\* one iteration of the while loop of run(): read a query, route it if it is
\* not empty; KeyboardInterrupt ends the loop, any other exception is answered
RunIteration ==
    /\ pc = "read"
    /\ \E ev \in InputEvents :
         LET w1 == get_input(World, ev)
             query == w1.ret
         IN  IF query = "<interrupt>"
             THEN /\ Commit(run_interrupted(w1))
                  /\ call' = Eff("get_input", ev.kind, ev.text)
                  /\ pc' = "done"
             ELSE IF query = "<recursion>"
             THEN /\ Commit(Say(w1, "I encountered an error. Please try again."))
                  /\ call' = Eff("get_input", ev.kind, ev.text)
                  /\ pc' = "sleep"
             ELSE IF query = ""
             THEN /\ Commit(w1)
                  /\ call' = Eff("get_input", ev.kind, ev.text)
                  /\ pc' = "sleep"
             ELSE \E o \in Outcomes(BranchOf[query]) :
                  /\ Commit(process_command(w1, query, o))
                  /\ call' = Eff("process_command", query, Given(ev))
                  /\ pc' = "sleep"

\* an iteration in which KeyboardInterrupt is raised inside process_command
RunInterrupted ==
    /\ pc = "read"
    /\ \E ev \in InputEvents :
         /\ get_input(World, ev).ret \notin {"", "<interrupt>", "<recursion>"}
         /\ \E o \in Outcomes(BranchOf[get_input(World, ev).ret]) :
              /\ call' = Eff("process_command_interrupted", get_input(World, ev).ret, Given(ev))
              /\ routing_interrupted(
                    interrupted_command(get_input(World, ev), get_input(World, ev).ret, o))

\* the end of the iteration without the loop test
RunSleep_without_test ==
    /\ pc = "sleep"
    /\ pc' = "read"
    /\ call' = NoCall
    /\ branch' = 0
    /\ eff' = << >>
    /\ ret' = None
    /\ UNCHANGED <<noah, chatbot, environ, disk>>

\* time.sleep(0.1) and the loop test: the iteration is over
RunSleep ==
    /\ pc = "sleep"
    /\ pc' = IF noah.is_listening THEN "read" ELSE "done"
    /\ call' = NoCall
    /\ branch' = 0
    /\ eff' = << >>
    /\ ret' = None
    /\ UNCHANGED <<noah, chatbot, environ, disk>>

Next == RunStart \/ RunIteration \/ RunInterrupted \/ RunSleep

Spec == Init /\ [][Next]_vars

(***************************************************************************)
(* The methods called directly, one call at a time, on an assistant that   *)
(* was constructed but whose run() was not started: the arguments are      *)
(* drawn from the sets below.                                              *)
(***************************************************************************)

\* every setting of the two key sources
AllEnvirons == { [env |-> e, config |-> c] : e \in KeyValues, c \in KeyValues }

\* the api_key arguments of load_gemini_api: omitted, empty, placeholder, keys
KeyArguments == KeyValues \cup {OTHER_KEY}

Turn(role, content) == [role |-> role, content |-> content]

\* s repeated n times, as a sequence
RECURSIVE RepSeq(_, _)
RepSeq(s, n) == IF n = 0 THEN << >> ELSE s \o RepSeq(s, n - 1)

\* the chat_history arguments: None, one exchange, an exchange with a blank
\* turn and a system turn, and more turns than the window holds
Histories ==
    { NoHistory,
      <<Turn("user", "hi"), Turn("assistant", "hello")>>,
      <<Turn("user", "  "), Turn("system", "rules"), Turn("user", " where is mars ")>>,
      <<Turn("user", "first")>>
         \o RepSeq(<<Turn("assistant", "a"), Turn("user", "u")>>, HISTORY_WINDOW \div 2)
         \o <<Turn("assistant", "last")>> }

ApiInit ==
    /\ \E mic \in BOOLEAN :
          /\ noah = NewNoah(mic, TRUE, [exists |-> FALSE, has_name |-> FALSE, name |-> ""])
          /\ disk = [exists |-> FALSE, has_name |-> FALSE, name |-> ""]
    /\ chatbot = NewChatbot
    /\ environ \in AllEnvirons
    /\ pc = "api"
    /\ call = NoCall
    /\ branch = 0
    /\ eff = << >>
    /\ ret = None

\* chatbot.load_gemini_api(api_key)
CallLoadGeminiApi ==
    /\ pc = "api"
    /\ \E arg \in KeyArguments, l \in LoadOutcomes :
          /\ Commit(load_gemini_api(World, arg, [DefaultOutcome EXCEPT !.load = l]))
          /\ call' = Eff("load_gemini_api", arg, l)
    /\ pc' = "returned"

\* process_command(query)
CallProcessCommand ==
    /\ pc = "api"
    /\ \E query \in DirectQueries :
          \E o \in Outcomes(BranchOf[query]) :
             /\ Commit(process_command(World, query, o))
             /\ call' = Eff("process_command", query, "")
    /\ pc' = "returned"

\* chatbot.get_response(message, chat_history)
CallGetResponse ==
    /\ pc = "api"
    /\ \E hist \in Histories, remote \in RemoteOutcomes \cup RawTexts :
          /\ Commit(get_response(World, "what about its moons", hist, remote))
          /\ call' = Eff("get_response", "what about its moons", hist)
    /\ pc' = "returned"

\* chatbot.toggle_concise_mode() and chatbot.set_concise_mode(enabled)
CallConciseMode ==
    /\ pc = "api"
    /\ \/ /\ Commit(toggle_concise_mode(World))
          /\ call' = Eff("toggle_concise_mode", "", "")
       \/ \E enabled \in BOOLEAN :
             /\ Commit(set_concise_mode(World, enabled))
             /\ call' = Eff("set_concise_mode", enabled, "")
    /\ pc' = "returned"

\* the call is over: the caller makes the next one
ApiReturn ==
    /\ pc = "returned"
    /\ pc' = "api"
    /\ call' = NoCall
    /\ branch' = 0
    /\ eff' = << >>
    /\ ret' = None
    /\ UNCHANGED <<noah, chatbot, environ, disk>>

ApiNext ==
    CallLoadGeminiApi \/ CallProcessCommand \/ CallGetResponse \/ CallConciseMode
    \/ ApiReturn

ApiSpec == ApiInit /\ [][ApiNext]_vars

(***************************************************************************)
(* Properties.  In a state with call.op = "process_command" the utterance  *)
(* call.a has just been routed: eff is the trace of that call, branch the  *)
(* branch that ran, and noah, chatbot, disk are as the call left them.     *)
(***************************************************************************)

Routed == call.op = "process_command"

\* the texts handed to say() during the call, in order
Replies == SelectSeq(eff, LAMBDA e : e.op = "say")

\* the number of entries of a trace made by op
CountOf(trace, op) == Len(SelectSeq(trace, LAMBDA e : e.op = op))

\* C1: for every non-empty utterance, state and collaborator outcome,
\* process_command says at least one non-empty reply.
C1_AlwaysReplies ==
    Routed => \E i \in DOMAIN Replies : Replies[i].a # ""

\* the trigger of rule r of the decision list of spec 4.1, for r in 1..20;
\* matching is on the utterance in lower case
Trigger(r, u) ==
    LET has(k) == Contains(Lower(u), k)
    IN  CASE r = 1 -> has("tell me about") \/ has("what is") \/ has("explain")
                      \/ has("describe") \/ has("information about")
                      \/ has("write about") \/ has("generate information about")
          [] r = 2 -> has("load ai model") \/ has("initialize ai") \/ has("use gemini")
                      \/ has("load gemini")
          [] r = 3 -> has("config status") \/ has("api status")
          [] r = 4 -> has("text mode") \/ has("switch to text") \/ has("voice mode")
                      \/ has("switch to voice")
          [] r = 5 -> has("hello") \/ has("hi") \/ has("hey") \/ has("good morning")
                      \/ has("good afternoon")
          [] r = 6 -> has("time")
          [] r = 7 -> has("date") \/ has("today")
          [] r = 8 -> has("weather")
          [] r = 9 -> has("wikipedia")
          [] r = 10 -> has("joke") \/ has("funny") \/ has("humor")
          [] r = 11 -> has("system") \/ has("status") \/ has("performance")
          [] r = 12 -> has("screenshot") \/ has("screen capture")
          [] r = 13 -> has("camera") \/ has("video")
          [] r = 14 -> has("search")
          [] r = 15 -> has("youtube")
          [] r = 16 -> has("google") /\ has("search")
          [] r = 17 -> has("open")
          [] r = 18 -> has("my name is") \/ has("call me")
          [] r = 19 -> has("help") \/ has("commands")
          [] r = 20 -> has("exit") \/ has("quit") \/ has("goodbye") \/ has("bye")
                       \/ has("stop")

\* the rule of the decision list that decides u: the lowest-numbered rule whose
\* trigger matches, rule 21 when none does
RuleOf(u) ==
    LET matching == { r \in 1..20 : Trigger(r, u) }
    IN  IF matching = {} THEN 21
        ELSE CHOOSE r \in matching : \A q \in matching : r <= q

\* RuleOf over the queries of the model
RuleOfQuery == [u \in Queries |-> RuleOf(u)]

\* the collaborators the handler of rule r calls, say() apart
HandlerOps(r) ==
    CASE r = 1 -> {"genai.configure", "generate_content", "remote_text", "remote_error",
                   "get_response", "wikipedia.summary", "write_report"}
      [] r = 2 -> {"genai.configure"}
      [] r = 8 -> {"requests.get"}
      [] r = 9 -> {"webbrowser.open", "smart_search", "wikipedia.summary"}
      [] r = 12 -> {"pyautogui.screenshot"}
      [] r = 13 -> {"cv2.VideoCapture"}
      [] r \in {14, 15, 16} -> {"webbrowser.open", "smart_search"}
      [] r = 17 -> {"subprocess.Popen", "webbrowser.open"}
      [] r = 18 -> {"save_user_data"}
      [] r = 20 -> {"halt"}
      [] r = 21 -> {"generate_content", "remote_text", "remote_error", "get_response"}
      [] OTHER -> {}

\* C2: the branch of process_command that runs for an utterance is the one of
\* the lowest-numbered rule of spec 4.1 whose trigger matches, rule 21 when none
\* matches, and only that rule's handler acts.
C2_DecisionList ==
    Routed =>
        /\ branch = RuleOfQuery[call.a]
        /\ \A i \in DOMAIN eff : eff[i].op \in HandlerOps(RuleOfQuery[call.a]) \cup {"say"}

\* an utterance with the triggers of rules 6 and 20 was decided by rule 6
C2_Witness == Routed /\ call.a = "stop the time" /\ branch = 6

ExitKeywords == <<"exit", "quit", "goodbye", "bye", "stop">>

\* the call set the halt flag once and said a farewell with the profile name
HaltedWithFarewell ==
    /\ ~noah.is_listening
    /\ CountOf(eff, "halt") = 1
    /\ \E i \in DOMAIN Replies :
          Contains(Replies[i].a, "Goodbye") /\ Contains(Replies[i].a, noah.user_name)

\* C3 as written: every utterance that contains an exit keyword sets the halt
\* flag exactly once and says a farewell that contains the profile name.
C3_ExitKeywordHalts ==
    (Routed /\ \E i \in DOMAIN ExitKeywords : Contains(call.a, ExitKeywords[i]))
        => HaltedWithFarewell

\* C3 amended: every utterance that contains an exit keyword and matches the
\* trigger of no earlier rule (1..19) sets the halt flag exactly once and says a
\* farewell that contains the profile name.
C3_ExitRuleHalts ==
    (/\ Routed
     /\ \E i \in DOMAIN ExitKeywords : Contains(call.a, ExitKeywords[i])
     /\ \A r \in 1..19 : ~Trigger(r, call.a))
        => HaltedWithFarewell

\* "goodbye" was routed for a user who had changed the profile name
C3_Witness ==
    Routed /\ call.a = "goodbye" /\ noah.user_name = "Alex" /\ HaltedWithFarewell

\* the utterances of the model that the greeting rule decides
GreetingUtterances == { u \in Utterances : RuleOfQuery[u] = 5 }

\* the replies of process_command(query) in the current state, for outcome o
RepliesTo(query, o) ==
    SelectSeq(process_command(World, query, o).eff, LAMBDA e : e.op = "say")

\* C4: once "my name is alex" has been routed, the reply to a greeting that
\* follows it contains "Alex", whichever template the random choice selects.
C4_GreetingNamesAlex ==
    (Routed /\ call.a = "my name is alex") =>
        \A g \in GreetingUtterances :
            \A pick \in 1..3 :
                LET r == RepliesTo(g, [DefaultOutcome EXCEPT !.pick = pick])
                IN  r # << >> /\ \A i \in DOMAIN r : Contains(r[i].a, "Alex")

\* C5: "search laptop on amazon" is searched on amazon with the query "laptop".
C5_SearchLaptopOnAmazon ==
    (Routed /\ call.a = "search laptop on amazon") =>
        \E i \in DOMAIN eff : eff[i] = Eff("smart_search", "laptop", "amazon")

\* the city the weather rule is to extract from utterance u: the space-joined
\* tokens after the first token "in" when a token follows it, else the default
CityOf(u) ==
    LET tokens == Split(u)
        ins == { i \in DOMAIN tokens : tokens[i] = "in" }
        first == CHOOSE i \in ins : \A j \in ins : i <= j
    IN  IF ins # {} /\ first < Len(tokens)
        THEN Join(SubSeq(tokens, first + 1, Len(tokens)))
        ELSE DEFAULT_CITY

\* C6: for an utterance the weather rule decides, the city handed to the weather
\* handler is CityOf(utterance): "weather in Tokyo" gives "Tokyo", "weather" the
\* default city.  call.b is the utterance as the user typed or spoke it.
C6_CityOfUtterance ==
    (Routed /\ branch = 8) =>
        \E i \in DOMAIN eff :
            /\ eff[i].op = "requests.get"
            /\ eff[i].a = "http://wttr.in/" \o CityOf(call.b) \o "?format=3"

\* the six patterns of the topic extraction, in their declared order
TopicPatterns ==
    <<"tell me about", "what is", "explain", "describe", "information about",
      "write about">>

\* where pattern k captures in u: the positions of "<pattern> " in u, letter
\* case apart, that are followed by at least one character
CapturesAt(u, k) ==
    LET p == TopicPatterns[k] \o " "
    IN  { i \in 1..(Len(u) - Len(p)) : SubSeq(Lower(u), i, i + Len(p) - 1) = p }

\* the topic of u: the trimmed capture of the first pattern, in declared order,
\* that captures, at its leftmost place; None when no pattern captures
TopicOf(u) ==
    LET capturing == { k \in DOMAIN TopicPatterns : CapturesAt(u, k) # {} }
        k == CHOOSE x \in capturing : \A y \in capturing : x <= y
        i == CHOOSE x \in CapturesAt(u, k) : \A y \in CapturesAt(u, k) : x <= y
    IN  IF capturing = {} THEN None
        ELSE Strip(SubSeq(u, i + Len(TopicPatterns[k]) + 1, Len(u)))

\* TopicOf over the queries of the model
TopicOfQuery == [u \in Queries |-> TopicOf(u)]

\* C7: for a query the information-request branch handles, the topic is
\* TopicOf(query), whatever the letter case; with no topic the only effect of
\* the call is the clarification reply, and with one the report is made on it.
C7_TopicExtraction ==
    [][(call'.op = "process_command" /\ branch' = 1) =>
          IF TopicOfQuery[call'.a] \in {None, ""}
          THEN /\ eff' = <<Eff("say", CLARIFY_TOPIC_MSG, "")>>
               /\ UNCHANGED <<noah, chatbot, disk, environ>>
          ELSE /\ \E i \in DOMAIN eff' :
                     eff'[i].op = "wikipedia.summary" /\ eff'[i].a = TopicOfQuery[call'.a]
               /\ \A i \in DOMAIN eff' :
                     eff'[i].op = "say" => eff'[i].a # CLARIFY_TOPIC_MSG
               /\ \A i \in DOMAIN eff' :
                     eff'[i].op \in {"wikipedia.summary", "write_report"}
                        => eff'[i].a = TopicOfQuery[call'.a]]_vars

\* a query in which "what is" stands before "tell me about" got the topic of
\* "tell me about", in the letter case it was given in
C7_Witness ==
    /\ Routed /\ call.a = "what is Tell Me About Mars " /\ branch = 1
    /\ \E i \in DOMAIN eff : eff[i].op = "write_report" /\ eff[i].a = "Mars"

\* C8: an error of the remote call whose message contains "quota", in any
\* letter case, is answered with the quota message, whatever else the message
\* contains.
C8_QuotaMessage ==
    \A i \in DOMAIN eff :
        (eff[i].op = "remote_error" /\ Contains(Lower(eff[i].a), "quota"))
            => eff[i].b = QUOTA_MSG

\* the world of the next state
WorldNext ==
    [noah |-> noah', chatbot |-> chatbot', environ |-> environ', disk |-> disk',
     eff |-> << >>, ret |-> None, branch |-> 0]

\* C9: routing a status utterance changes no state of the assistant, and
\* routing it again right after gives the same reply.
C9_StatusIdempotent ==
    [][(call'.op = "process_command" /\ branch' = 3) =>
          /\ UNCHANGED <<noah, chatbot, disk, environ>>
          /\ Len(eff') = 1 /\ eff'[1].op = "say"
          /\ StartsWith(eff'[1].a, "Configuration status: ")
          /\ process_command(WorldNext, call'.a, DefaultOutcome).eff = eff'
          /\ process_command(WorldNext, call'.a, DefaultOutcome).noah = noah'
          /\ process_command(WorldNext, call'.a, DefaultOutcome).chatbot = chatbot']_vars

\* the status was reported with the model loaded
C9_Witness ==
    /\ Routed /\ branch = 3 /\ is_model_loaded(chatbot)
    /\ eff = <<Eff("say", "Configuration status: API key configured in config.py"
                          \o ". Model: Google gemini-1.5-flash - Advanced AI Assistant (from config)", "")>>

\* a key source that is absent or empty
Absent(v) == v = None \/ v = ""

\* C10: load_gemini_api takes the key from its argument, else from the
\* environment variable, else from the config value, a source being passed over
\* only when it is absent or empty; an empty, missing or placeholder key is
\* rejected: False is returned and the remote client is not configured.
C10_KeyPriority ==
    call.op = "load_gemini_api" =>
        /\ ~Absent(call.a) => chatbot.api_key = call.a
        /\ (Absent(call.a) /\ ~Absent(environ.env)) => chatbot.api_key = environ.env
        /\ (Absent(call.a) /\ Absent(environ.env) /\ ~Absent(environ.config))
              => chatbot.api_key = environ.config
        /\ (Absent(call.a) /\ Absent(environ.env) /\ Absent(environ.config))
              => chatbot.api_key = None
        /\ IF Absent(chatbot.api_key) \/ chatbot.api_key = "YOUR_API_KEY_HERE"
           THEN ret = "False" /\ eff = << >>
           ELSE eff = <<Eff("genai.configure", chatbot.api_key, "")>>
        /\ ret = "True" <=> (eff # << >> /\ call.b = "ok")

\* the config value was used: the argument was empty and the variable unset
C10_Witness ==
    /\ call = Eff("load_gemini_api", "", "ok")
    /\ environ = [env |-> None, config |-> VALID_KEY]
    /\ chatbot.api_key = VALID_KEY /\ ret = "True"

\* the adapter as EnhancedChatbot.__init__ leaves it, the concise flag apart
Unloaded(bot) == bot.model_type = None /\ ~bot.gemini_model /\ bot.api_key = None

\* C11: whenever load_gemini_api returns False, is_model_loaded() is False
\* afterwards and api_key, gemini_model and model_type are as for an unloaded
\* adapter, also when an earlier load had succeeded.
C11_FailedLoadUnloaded ==
    (call.op = "load_gemini_api" /\ ret = "False") =>
        ~is_model_loaded(chatbot) /\ Unloaded(chatbot)

\* C12: when the fallback rule delegates to the adapter, the prompt sent holds
\* the recent turns of the session.  In run() a delegation is always preceded by
\* the exchange that loaded the model, so the history is never empty.
C12_FallbackSendsHistory ==
    (Routed /\ branch = 21) =>
        \A i \in DOMAIN eff :
            eff[i].op = "generate_content" =>
                Contains(eff[i].a, "Recent context:\nUser: ")

\* the entries of the trace made by op
Calls(op) == SelectSeq(eff, LAMBDA e : e.op = op)

\* the reply the fallback rule is to speak for the adapter's reply r
CappedReply(r) ==
    IF Len(r) <= 200 THEN r
    ELSE SubSeq(r, 1, 200) \o "... Would you like me to elaborate on any part?"

\* C13: in the fallback rule, with the backend marked loaded the adapter is
\* called once with the utterance and the one spoken reply is its reply when
\* that has at most 200 characters, else its first 200 characters and the
\* continuation prompt; with the backend not loaded the adapter is not called
\* and the one spoken reply is one of the three fixed suggestions.
C13_FallbackReply ==
    (Routed /\ branch = 21) =>
        IF noah.ai_model_loaded
        THEN /\ Len(Calls("get_response")) = 1
             /\ Calls("get_response")[1].a = call.a
             /\ Len(Replies) = 1
             /\ Replies[1].a = CappedReply(Calls("get_response")[1].b)
        ELSE /\ Calls("get_response") = << >>
             /\ Calls("generate_content") = << >>
             /\ Len(Replies) = 1
             /\ \E i \in DOMAIN suggestions : Replies[1].a = suggestions[i]

\* a reply longer than the cap was cut
C13_Witness ==
    /\ Routed /\ branch = 21 /\ noah.ai_model_loaded
    /\ Len(Calls("get_response")) = 1
    /\ Len(Calls("get_response")[1].b) > 200
    /\ Len(Replies) = 1
    /\ Len(Replies[1].a) = 200 + Len("... Would you like me to elaborate on any part?")

\* the utterance asks for text input
AsksForText(u) == Contains(u, "text mode") \/ Contains(u, "switch to text")

\* C14: when the mode-switch rule handles an utterance, a request for text input
\* always sets text_mode to True; a request for voice input sets it to False
\* when a microphone is available, and otherwise leaves it unchanged and
\* replies that voice mode is not available.  Nothing else of the assistant
\* changes.
C14_ModeSwitch ==
    [][(call'.op = "process_command" /\ branch' = 4) =>
          /\ IF AsksForText(call'.a)
             THEN noah'.text_mode
             ELSE IF noah.microphone
             THEN ~noah'.text_mode
             ELSE /\ noah'.text_mode = noah.text_mode
                  /\ \E i \in DOMAIN eff' :
                        /\ eff'[i].op = "say"
                        /\ Contains(eff'[i].a, "Voice mode is not available")
          /\ noah' = [noah EXCEPT !.text_mode = noah'.text_mode]
          /\ UNCHANGED <<chatbot, disk, environ>>]_vars

\* voice input was asked for without a microphone: the mode stayed text
C14_Witness ==
    /\ Routed /\ call.a = "switch to voice" /\ branch = 4
    /\ ~noah.microphone /\ noah.text_mode
    /\ Replies = <<Eff("say", "Voice mode is not available. Microphone not detected.", "")>>

\* the calls of an iteration of run(): it read input, and routed it if not empty
IterationOps == {"get_input", "process_command", "process_command_interrupted"}

\* C15: once is_listening is False no step sets it back to True and run() reads
\* and routes nothing more; run() takes no step after its loop ended; and an
\* utterance is read only when the iteration of the one before it is over.
C15_HaltIsTerminal ==
    [][/\ ~noah.is_listening => ~noah'.is_listening
       /\ ~noah.is_listening => call'.op \notin IterationOps
       /\ pc # "done"
       /\ call'.op \in IterationOps => (pc = "read" /\ call = NoCall /\ eff = << >>)]_vars

\* run() ended after an exit utterance
C15_Witness == pc = "done" /\ ~noah.is_listening

\* KeyboardInterrupt was raised in the iteration: while input was read (in text
\* mode get_input answers it with "exit"), or while the utterance was routed
InterruptRaised(c) ==
    \/ c.op = "process_command_interrupted"
    \/ c.op = "get_input" /\ c.a = "interrupt"
    \/ c.op = "process_command" /\ c.b = "<interrupt>"

\* C16: an iteration in which an interrupt is raised, while reading or while
\* routing, says a goodbye and ends the loop (by break, or by the halt flag at
\* the next loop test); an iteration in which another exception reaches run()
\* says an apology and the loop goes on.
C16_InterruptEndsRun ==
    [][/\ InterruptRaised(call') =>
            /\ pc' = "done" \/ ~noah'.is_listening
            /\ \E i \in DOMAIN eff' :
                  eff'[i].op = "say" /\ Contains(eff'[i].a, "Goodbye")
       /\ (call'.op = "get_input" /\ ret' = "<recursion>") =>
            /\ pc' = "sleep" /\ noah'.is_listening
            /\ eff'[Len(eff')] = Eff("say", "I encountered an error. Please try again.", "")]_vars

\* the success message of smart_search was spoken for the call traced at i
SaidOpening(i) ==
    \E j \in DOMAIN eff :
        /\ eff[j].op = "say"
        /\ eff[j].a = "Opening " \o eff[i].b \o " and searching for " \o eff[i].a

\* C17: for every smart_search call (traced at i, its browser call at i - 1):
\* when the browser call did not open the page, the open command of the
\* operating system is run; and the success message is the result if and only
\* if the browser call or that command opened the page.
C17_SearchFallback ==
    \A i \in DOMAIN eff :
        (eff[i].op = "smart_search" /\ i > 1 /\ eff[i - 1].op = "webbrowser.open") =>
            /\ eff[i - 1].b # "opened" => \E j \in DOMAIN eff : eff[j].op = "os.system"
            /\ SaidOpening(i) <=>
                  \/ eff[i - 1].b = "opened"
                  \/ \E j \in DOMAIN eff : eff[j].op = "os.system" /\ eff[j].b = "opened"

\* the searches the help text, the banner and the suggestions advertise, each
\* with the platform advertised for it
AdvertisedSearches ==
    { <<"search machine learning", "google">>, <<"search python tutorials", "google">>,
      <<"youtube python tutorials", "youtube">>, <<"youtube music videos", "youtube">>,
      <<"search python on github", "github">>, <<"search laptop on amazon", "amazon">>,
      <<"search einstein on wikipedia", "wikipedia">> }

\* C18: each advertised search utterance is dispatched to smart_search on the
\* platform advertised for it.
C18_AdvertisedSearches ==
    \A s \in AdvertisedSearches :
        (Routed /\ call.a = s[1]) =>
            \E i \in DOMAIN eff : eff[i].op = "smart_search" /\ eff[i].b = s[2]

\* the tokens after the first token "is" ("my name is") or "me" ("call me") of
\* utterance u, joined by spaces: "" when the marker is no token of u or is its
\* last token
NameTokens(u) ==
    LET tokens == Split(u)
        marker == IF Contains(u, "my name is") THEN "is" ELSE "me"
        at == { i \in DOMAIN tokens : tokens[i] = marker }
        first == CHOOSE i \in at : \A j \in at : i <= j
    IN  IF at = {} THEN "" ELSE Join(SubSeq(tokens, first + 1, Len(tokens)))

\* C19: when the name rule handles an utterance with tokens after the marker,
\* user_name and the profile record's name become those tokens in title case,
\* and the profile is written, with that name, before the reply is spoken;
\* with no such token the profile is unchanged and the reply is the
\* clarification.
C19_NameAssignment ==
    [][(call'.op = "process_command" /\ branch' = 18) =>
          IF NameTokens(call'.a) # ""
          THEN /\ noah'.user_name = Title(NameTokens(call'.a))
               /\ noah'.user_data = [has_name |-> TRUE, name |-> Title(NameTokens(call'.a))]
               /\ \A i \in DOMAIN eff' :
                     eff'[i].op = "save_user_data" =>
                        /\ eff'[i].a = Title(NameTokens(call'.a))
                        /\ disk'.name = Title(NameTokens(call'.a))
                        /\ \A j \in DOMAIN eff' : eff'[j].op = "say" => i < j
               /\ \E j \in DOMAIN eff' :
                     eff'[j] = Eff("say", "Nice to meet you, "
                                          \o Title(NameTokens(call'.a)) \o "!", "")
          ELSE /\ UNCHANGED <<noah, disk>>
               /\ \E j \in DOMAIN eff' :
                     eff'[j] = Eff("say", "I didn't catch your name. Please try again.", "")]_vars

\* the places of the trace op was called at
PlacesOf(trace, op) == { i \in DOMAIN trace : trace[i].op = op }

\* the load the topic report makes on demand was announced in the trace
LoadAnnounced(trace) ==
    \E i \in DOMAIN trace :
        trace[i] = Eff("say", "Loading advanced Gemini AI model from configuration...", "")

\* C20: when the information-request rule handles an utterance with a topic:
\* with the backend not loaded a load is attempted first, and with it loaded
\* none is; when the load fails the adapter is not called and the handler
\* returns after one encyclopedia lookup; when the backend is or becomes loaded
\* exactly two prompts go to the adapter, the overview prompt then the features
\* prompt, both before the report file is written, and the backend stays marked
\* loaded, so that an unmatched utterance routed next is delegated to the
\* adapter.  No step unmarks a loaded backend.
C20_TopicReport ==
    [][/\ noah.ai_model_loaded => noah'.ai_model_loaded
       /\ (call'.op = "process_command" /\ branch' = 1
           /\ TopicOfQuery[call'.a] \notin {None, ""}) =>
             /\ LoadAnnounced(eff') <=> ~noah.ai_model_loaded
             /\ \A i \in PlacesOf(eff', "get_response") :
                   \A j \in PlacesOf(eff', "genai.configure") : j < i
             /\ IF ~noah'.ai_model_loaded
                THEN /\ PlacesOf(eff', "get_response") = {}
                     /\ PlacesOf(eff', "generate_content") = {}
                     /\ Cardinality(PlacesOf(eff', "wikipedia.summary")) = 1
                     /\ ret' \in { "Sorry, I couldn't load the AI model or find Wikipedia information.",
                                   "I couldn't load the AI model, but I found Wikipedia information about "
                                      \o TopicOfQuery[call'.a] \o "." }
                ELSE /\ Cardinality(PlacesOf(eff', "get_response")) = 2
                     /\ Cardinality(PlacesOf(eff', "generate_content")) = 2
                     /\ \E i, j \in PlacesOf(eff', "get_response") :
                           /\ i < j
                           /\ Contains(eff'[i].a, "comprehensive overview of " \o TopicOfQuery[call'.a])
                           /\ Contains(eff'[j].a, "main features and characteristics of "
                                                  \o TopicOfQuery[call'.a])
                     /\ \A i \in PlacesOf(eff', "get_response") :
                           \A j \in PlacesOf(eff', "write_report") : i < j
                     /\ is_model_loaded(chatbot')
                     /\ PlacesOf(process_command(WorldNext, "sing a song", DefaultOutcome).eff,
                                 "get_response") # {}]_vars

\* the report was made after a load on demand: two prompts, then the file
C20_Witness ==
    /\ Routed /\ branch = 1 /\ call.a = "tell me about mars"
    /\ PlacesOf(eff, "genai.configure") # {}
    /\ Cardinality(PlacesOf(eff, "get_response")) = 2
    /\ PlacesOf(eff, "write_report") # {}
    /\ noah.ai_model_loaded

\* the text after a leading label "NOAH:", trimmed; t itself without the label
Unlabelled(t) == IF StartsWith(t, "NOAH:") THEN Strip(SubSeq(t, 6, Len(t))) ELSE t

\* the label stands once at the start of t, not twice
EchoedOnce(t) == StartsWith(t, "NOAH:") /\ ~StartsWith(Unlabelled(t), "NOAH:")

\* C21: for every text the remote service returns (raw text eff[i].a, the
\* adapter's result eff[i].b): an empty text gives the "having trouble"
\* message; otherwise the result has no whitespace at its ends, is the trimmed
\* text when that has at most 800 characters, and its first 800 characters and
\* "..." when it has more, in both cases without a label "NOAH:" at its start
\* when the label was echoed once.
C21_PostProcessing ==
    \A i \in DOMAIN eff :
        eff[i].op = "remote_text" =>
            IF eff[i].a = ""
            THEN eff[i].b = "I'm having trouble generating a response right now. Please try again."
            ELSE /\ eff[i].b = Strip(eff[i].b)
                 /\ Len(Strip(eff[i].a)) <= 800 => eff[i].b = Unlabelled(Strip(eff[i].a))
                 /\ Len(Strip(eff[i].a)) > 800 =>
                       eff[i].b = Unlabelled(SubSeq(Strip(eff[i].a), 1, 800) \o "...")
                 /\ Len(eff[i].b) <= 800 + Len("...")
                 /\ EchoedOnce(Strip(eff[i].a)) => ~StartsWith(eff[i].b, "NOAH:")

\* a text longer than the limit, with the label, was cut and unlabelled
C21_Witness ==
    \E i \in DOMAIN eff :
        /\ eff[i].op = "remote_text"
        /\ Len(Strip(eff[i].a)) > 800 /\ StartsWith(Strip(eff[i].a), "NOAH:")
        /\ Len(eff[i].b) = 800 - Len("NOAH: ") + Len("...")
        /\ StartsWith(eff[i].b, "Mars is")

\* the lines of the formatted history of hist: of its last 6 turns, in their
\* order, those of role user or assistant whose trimmed content is not empty
HistoryLines(hist) ==
    LET recent == SubSeq(hist, IF Len(hist) > 6 THEN Len(hist) - 5 ELSE 1, Len(hist))
        shown == SelectSeq(recent, LAMBDA m : /\ m.role \in {"user", "assistant"}
                                              /\ Strip(m.content) # "")
    IN  [i \in DOMAIN shown |->
            (IF shown[i].role = "user" THEN "User: " ELSE "NOAH: ")
                \o Strip(shown[i].content)]

\* the lines, one per line, under the heading; nothing when there is no line
RECURSIVE LinesText(_)
LinesText(lines) ==
    IF lines = << >> THEN "" ELSE Head(lines) \o "\n" \o LinesText(Tail(lines))

FormattedHistory(hist) ==
    IF HistoryLines(hist) = << >> THEN ""
    ELSE "Recent context:\n" \o LinesText(HistoryLines(hist)) \o "\n"

WikiRemainder(u) == Strip(Remove(Remove(u, "wikipedia"), "search"))

\* C23: when the Wikipedia rule handles an utterance with a non-empty remainder,
\* one web search on Wikipedia and one summary fetch are made for the remainder,
\* the search result is spoken, and the summary or the fetch's error text (ret)
\* is spoken after it exactly when it is shorter than 200 characters; with an
\* empty remainder the clarification reply is the only effect.
C23_WikipediaRule ==
    (Routed /\ branch = 9) =>
        IF WikiRemainder(call.a) # ""
        THEN /\ Calls("smart_search") = <<Eff("smart_search", WikiRemainder(call.a), "wikipedia")>>
             /\ Len(Calls("webbrowser.open")) = 1
             /\ StartsWith(Calls("webbrowser.open")[1].a,
                           "https://en.wikipedia.org/wiki/Special:Search?search=")
             /\ Len(Calls("wikipedia.summary")) = 1
             /\ Calls("wikipedia.summary")[1].a = WikiRemainder(call.a)
             /\ Len(Replies) = IF Len(ret) < 200 THEN 2 ELSE 1
             /\ Contains(Replies[1].a, "wikipedia")
             /\ Len(ret) < 200 => Replies[2].a = ret
        ELSE eff = <<Eff("say", "What would you like me to search on Wikipedia?", "")>>

\* a summary of 200 characters or more was fetched and not spoken
C23_Witness ==
    /\ Routed /\ branch = 9 /\ call.a = "search einstein on wikipedia"
    /\ Len(Calls("wikipedia.summary")) = 1 /\ Calls("wikipedia.summary")[1].b = "long"
    /\ Len(ret) >= 200 /\ Len(Replies) = 1

\* C24: an explicit concise command given in the run loop ("toggle concise",
\* "concise mode") flips the adapter's concise_mode flag.
C24_ToggleCommand ==
    [][(call'.op = "process_command" /\ Contains(call'.a, "concise")) =>
          chatbot'.concise_mode = ~chatbot.concise_mode]_vars

\* C25: for every setting of the config key and the environment key, a load
\* without explicit key passes the key validation (the remote client gets
\* configured) exactly when get_api_status reports a key as configured.
C25_StatusMatchesLoad ==
    (call.op = "load_gemini_api" /\ call.a \in {None, ""}) =>
        (eff # << >> <=> get_api_status(environ) # "No API key configured")

\* C26: an utterance with both "google" and "search" that no rule before the
\* generic search rule matches is handled by the direct-Google branch: it runs
\* branch 16 and searches google for what is left without "google", "search"
\* and "on".
C26_DirectGoogleRuns ==
    (/\ Routed
     /\ Contains(call.a, "google") /\ Contains(call.a, "search")
     /\ \A r \in 1..13 : ~Trigger(r, call.a)) =>
        /\ branch = 16
        /\ \E i \in DOMAIN eff :
              eff[i] = Eff("smart_search",
                           Strip(Remove(Remove(Remove(call.a, "google"), "search"), "on")),
                           "google")

\* C27: in every state of run() the router's ai_model_loaded flag equals the
\* adapter's is_model_loaded(); so the fallback rule calls the remote service
\* exactly when the adapter is loaded, and speaks a static suggestion exactly
\* when it is not.
C27_LoadedFlagsAgree ==
    /\ noah.ai_model_loaded = is_model_loaded(chatbot)
    /\ (Routed /\ branch = 21) =>
          /\ Calls("generate_content") # << >> <=> is_model_loaded(chatbot)
          /\ (\E i \in DOMAIN suggestions : Replies = <<Eff("say", suggestions[i], "")>>)
                <=> ~is_model_loaded(chatbot)
          /\ \A i \in DOMAIN eff : eff[i].op = "get_response" => eff[i].b # LOAD_FIRST_MSG

\* a load command failed after an earlier one had succeeded: both still loaded
C27_Witness ==
    /\ Routed /\ branch = 2 /\ ret = "False"
    /\ noah.ai_model_loaded /\ is_model_loaded(chatbot)

\* C28: in every state user_name is the name field of the profile record in
\* memory, or the default name when the record has no name field.
C28_NameMatchesRecord ==
    noah.user_name = IF noah.user_data.has_name THEN noah.user_data.name
                     ELSE DEFAULT_USER_NAME

\* the name was changed while the profile file could not be written
C28_Witness ==
    /\ Routed /\ call.a = "my name is alex" /\ disk.name # "Alex"
    /\ noah.user_name = "Alex" /\ noah.user_data = [has_name |-> TRUE, name |-> "Alex"]

\* C29: in every state voice input mode implies a microphone; so no get_input
\* call ends in get_input and listen calling each other without end, and no
\* iteration is answered with the apology for such an error.
C29_VoiceNeedsMicrophone ==
    /\ ~noah.text_mode => noah.microphone
    /\ ret # "<recursion>"
    /\ call.op = "get_input" =>
          \A i \in DOMAIN eff :
              eff[i] # Eff("say", "I encountered an error. Please try again.", "")

\* the speech service failed while listening: the mode went back to text
C29_Witness ==
    /\ call.op = "get_input" /\ call.a = "request_error"
    /\ noah.microphone /\ noah.text_mode
    /\ Replies = <<Eff("say", "Sorry, my speech service is having issues. Switching to text mode.", "")>>

====
